---- MODULE Spec2Model ----
(***************************************************************************)
(* The virtual trading ledger of market-radar (src/app.py): the session    *)
(* state loaded at lines 77-79, the EXECUTE handler of the trading tab     *)
(* (lines 407-457) and the JSON store (load_json / save_json, lines 64-75).*)
(*                                                                         *)
(* Amounts of money (cash, prices, val, fee) are integers counted in       *)
(* tenths of a currency unit; the quotes drawn are multiples of 100        *)
(* currency units, so that val * 0.001 is a whole number of tenths and the *)
(* arithmetic of the handler is exact.  avg_price is the result of a true  *)
(* division and is kept as a normalised fraction [num, den].               *)
(***************************************************************************)
EXTENDS Integers, Sequences, FiniteSets, TLC

VARIABLES trading, transactions, trading_file, transactions_file, last, nTrades,
          net

vars == <<trading, transactions, trading_file, transactions_file, last, nTrades,
          net>>

(* ------------------------------ bounds -------------------------------- *)

\* accepted trades in one behaviour
MaxTrades == 2

\* the radio of line 412, reduced to the key it selects
Markets == {"india", "global"}

\* text typed in the ticker box, after .upper()
TSyms == {"X", "Y.NS"}

\* prices a quote may carry, in tenths: -60000, 0, 100 and 60000 units
Prices == {-600000, 0, 1000, 600000}

\* what happens when save_json runs: the document is written, or the write
\* fails after open(filename, 'w') has truncated the file (disk full, kill)
SaveOutcomes == {"ok", "write_failed"}

(* ------------------------- program constants -------------------------- *)

\* 1000000.0 and 100000.0 of line 78, in tenths
DefaultCashIndia == 10000000
DefaultCashGlobal == 1000000

\* number_input("Qty", 1, 10000)
MinQty == 1
MaxQty == 10000

\* quantities entered, within the number_input range
Qtys == {MinQty, 10}

\* the fee rate 0.001 as a fraction
FeeRateNum == 1
FeeRateDen == 1000

(* ------------------------------ fractions ----------------------------- *)

Abs(n) == IF n < 0 THEN -n ELSE n

RECURSIVE GCD(_, _)
GCD(a, b) == IF b = 0 THEN a ELSE GCD(b, a % b)

\* the fraction n/d (d > 0) in lowest terms
Rat(n, d) ==
    LET g == GCD(Abs(n), d)
    IN  [num |-> n \div g, den |-> d \div g]

\* a price or an int as a fraction
RatOfInt(n) == [num |-> n, den |-> 1]

\* (q * a + v) / nq for an int q, a fraction a, an int v and an int nq > 0
RatBlend(q, a, v, nq) == Rat(q * a.num + v * a.den, a.den * nq)

(* ------------------------------ the store ----------------------------- *)

\* JSON text, as the values it spells: an object is its set of members
\* <<key, value>>, a number is a token that keeps whether it was written with
\* a fraction part (a Python float) or without (a Python int)
JObject(members) == [j |-> "object", members |-> members]
JFloat(x) == [j |-> "float", v |-> x]
JInt(n) == [j |-> "int", v |-> n]

\* json.dump of a position {'qty': int, 'avg_price': float}
DumpPos(pos) ==
    JObject({<<"qty", JInt(pos.qty)>>, <<"avg_price", JFloat(pos.avg_price)>>})

\* json.dump of a segment {'cash': float, 'holdings': {ticker: position}}
DumpPort(port) ==
    JObject({<<"cash", JFloat(port.cash)>>,
             <<"holdings",
               JObject({<<t, DumpPos(port.holdings[t])>> :
                          t \in DOMAIN port.holdings})>>})

\* json.dump of st.session_state.trading
json_dump(data) ==
    JObject({<<m, DumpPort(data[m])>> : m \in DOMAIN data})

\* json.load: an object becomes a dict over its keys, a number its value
RECURSIVE json_load(_)
json_load(v) ==
    IF v.j = "object"
    THEN [k \in {p[1] : p \in v.members} |->
             json_load((CHOOSE p \in v.members : p[1] = k)[2])]
    ELSE v.v

\* what a file holds: nothing (no such file), text that does not parse, or
\* the text of a document
Absent == [kind |-> "absent"]
Corrupt == [kind |-> "corrupt"]
JsonFile(data) == [kind |-> "json", text |-> json_dump(data)]

\* line 65: os.path.exists(filename)
Exists(file) == file.kind # "absent"

\* lines 67-68: open and json.load, which return the document or raise
TryLoad(file) ==
    IF file.kind = "json"
    THEN [raised |-> FALSE, value |-> json_load(file.text)]
    ELSE [raised |-> TRUE]

\* an exception that leaves the function
Raised == [raised |-> TRUE]

\* mutant of Handle: the exception is not caught and reaches the caller
HandleReraise(r, default) == IF r.raised THEN Raised ELSE r.value

\* lines 66-70: try ... except: return default
Handle(r, default) == IF r.raised THEN default ELSE r.value

\* load_json: the parsed document, or the default when the file does not
\* exist or does not parse
load_json(file, default) ==
    IF Exists(file) THEN Handle(TryLoad(file), default) ELSE default

\* mutant of save_json: the file is opened for appending, so that text
\* written after earlier content does not parse
save_jsonAppend(file, data, outcome) ==
    IF outcome = "ok" /\ ~Exists(file) THEN JsonFile(data) ELSE Corrupt

\* mutant of save_json: the file is created exclusively (mode 'x'), so that
\* a file that exists keeps what the first writer put there
save_jsonExclusive(file, data, outcome) ==
    IF Exists(file) THEN file ELSE JsonFile(data)

\* save_json: open(filename, 'w') truncates, json.dump writes.  The file
\* after the call, by what the filesystem lets happen.
save_json(file, data, outcome) ==
    IF outcome = "ok" THEN JsonFile(data) ELSE Corrupt

NoHoldings == [t \in {} |-> [qty |-> 0, avg_price |-> RatOfInt(0)]]

DefaultTrading ==
    [india |-> [cash |-> DefaultCashIndia, holdings |-> NoHoldings],
     global |-> [cash |-> DefaultCashGlobal, holdings |-> NoHoldings]]

DefaultTransactions == <<>>

(* ---------------------------- the handler ----------------------------- *)

\* line 424-425: the India market appends .NS unless it is there already
EndsWithNS(t_sym) == t_sym \in {"Y.NS"}

AppendNS(t_sym) == IF t_sym = "X" THEN "X.NS" ELSE t_sym

FinalTicker(m_key, t_sym) ==
    IF m_key = "india" /\ ~EndsWithNS(t_sym) THEN AppendNS(t_sym) ELSE t_sym

\* line 435: val = lp * qty
Val(lp, qty) == lp * qty

\* line 436: fee = val * 0.001
Fee(val) == (val * FeeRateNum) \div FeeRateDen

\* mutant of HasFunds: any cash at all passes
HasFundsAnyCash(port, val, fee) == port.cash > 0

\* line 438: port['cash'] >= (val+fee)
HasFunds(port, val, fee) == port.cash >= val + fee

\* mutant of NewAvg: the fee is blended into the average
NewAvgWithFee(old, val, fee, new_q) ==
    RatBlend(old.qty, old.avg_price, val + fee, new_q)

\* line 443: new_avg = ((old['qty']*old['avg_price'])+val)/new_q
NewAvg(old, val, fee, new_q) == RatBlend(old.qty, old.avg_price, val, new_q)

\* mutant of FirstAvg: the fee is spread over the shares bought
FirstAvgWithFee(lp, val, fee, qty) == Rat(val + fee, qty)

\* line 446: the average price of a position that is created
FirstAvg(lp, val, fee, qty) == RatOfInt(lp)

\* mutant of NewQty: the quantity bought replaces the quantity held
NewQtyReplaced(old, qty) == qty

\* line 442: new_q = old['qty'] + qty
NewQty(old, qty) == old.qty + qty

\* a function with one key set or added
Put(f, k, v) == [x \in (DOMAIN f) \cup {k} |-> IF x = k THEN v ELSE f[x]]

\* a function with one key deleted
Del(f, k) == [x \in (DOMAIN f) \ {k} |-> f[x]]

\* lines 439-446: the BUY branch once the funds are there
BuyPort(port, final_ticker, lp, qty) ==
    LET val == Val(lp, qty)
        fee == Fee(val)
        cash1 == port.cash - (val + fee)
    IN  IF final_ticker \in DOMAIN port.holdings
        THEN LET old == port.holdings[final_ticker]
                 new_q == NewQty(old, qty)
                 new_avg == NewAvg(old, val, fee, new_q)
             IN  [cash |-> cash1,
                  holdings |-> Put(port.holdings, final_ticker,
                                   [qty |-> new_q, avg_price |-> new_avg])]
        ELSE [cash |-> cash1,
              holdings |-> Put(port.holdings, final_ticker,
                               [qty |-> qty,
                                avg_price |-> FirstAvg(lp, val, fee, qty)])]

\* mutant of HasShares: the quantity held is not compared
HasSharesAnyQty(port, final_ticker, qty) ==
    final_ticker \in DOMAIN port.holdings

\* line 451: the symbol is held and the quantity held covers the order
HasShares(port, final_ticker, qty) ==
    /\ final_ticker \in DOMAIN port.holdings
    /\ port.holdings[final_ticker].qty >= qty

\* mutant of DropIfZero: the emptied position stays
DropNever(holdings, final_ticker) == holdings

\* line 454: a position whose quantity reached 0 is deleted
DropIfZero(holdings, final_ticker) ==
    IF holdings[final_ticker].qty = 0
    THEN Del(holdings, final_ticker)
    ELSE holdings

\* mutant of SellCash: the fee is added to the proceeds
SellCashFeeAdded(cash, val, fee) == cash + (val + fee)

\* line 452: the cash after a sale
SellCash(cash, val, fee) == cash + (val - fee)

\* mutant of SoldPos: the position is repriced at the sale price
SoldPosRepriced(old, lp, qty) ==
    [qty |-> old.qty - qty, avg_price |-> RatOfInt(lp)]

\* line 453: port['holdings'][final_ticker]['qty'] -= qty, in place
SoldPos(old, lp, qty) ==
    [qty |-> old.qty - qty, avg_price |-> old.avg_price]

\* lines 452-454: the SELL branch once the shares are there
SellPort(port, final_ticker, lp, qty) ==
    LET val == Val(lp, qty)
        fee == Fee(val)
        old == port.holdings[final_ticker]
        h1 == [port.holdings EXCEPT
                 ![final_ticker] = SoldPos(old, lp, qty)]
    IN  [cash |-> SellCash(port.cash, val, fee),
         holdings |-> DropIfZero(h1, final_ticker)]

\* what a click on EXECUTE was about and what the page answered
\* (io: whether the save ran to its end, raised, or was not reached)
Click(s, m_key, t_sym, lp, act, qty, result, io) ==
    [op |-> "execute", s |-> s, m_key |-> m_key,
     final_ticker |-> FinalTicker(m_key, t_sym),
     lp |-> lp, act |-> act, qty |-> qty, result |-> result, io |-> io]

\* every ticker a click can be about
AllTickers == {FinalTicker(m, t) : m \in Markets, t \in TSyms}

\* the quantities a session's ledger holds, 0 for a ticker that is not held
\* (and for a session whose ledger failed to load)
HeldQty(tr) ==
    [m \in Markets |->
       [t \in AllTickers |->
          IF tr # Raised /\ t \in DOMAIN tr[m].holdings
          THEN tr[m].holdings[t].qty
          ELSE 0]]

\* lines 447, 455: the orders the page answered "Bought!" (+qty) or "Sold!"
\* (-qty), summed per session, segment and ticker
Tally(n, s, m_key, final_ticker, delta) ==
    [n EXCEPT ![s][m_key][final_ticker] = @ + delta]

\* mutant of StorePort: the two segments are one and the same dict
StorePortShared(tr, m_key, port) == [m \in DOMAIN tr |-> port]

\* line 415: port = st.session_state.trading[m_key]; what the handler does
\* to port is done to that segment of the session's ledger and to no other
StorePort(tr, m_key, port) == [tr EXCEPT ![m_key] = port]

\* line 408: 'trading' in st.session_state (absent when loading it raised)
HasTrading(s) == s \in DOMAIN trading /\ trading[s] # Raised

\* lines 434-457 for a BUY
ExecuteBuy(s, m_key, t_sym, lp, qty, io) ==
    LET port == trading[s][m_key]
        final_ticker == FinalTicker(m_key, t_sym)
        val == Val(lp, qty)
        fee == Fee(val)
    IN  /\ nTrades < MaxTrades
        /\ HasTrading(s)
        /\ qty \in MinQty..MaxQty
        /\ IF HasFunds(port, val, fee)
           THEN LET new == [trading EXCEPT
                              ![s] = StorePort(trading[s], m_key,
                                       BuyPort(port, final_ticker, lp, qty))]
                IN  /\ trading' = new
                    /\ trading_file' = save_json(trading_file, new[s], io)
                    /\ last' = Click(s, m_key, t_sym, lp, "BUY", qty, "Bought!", io)
                    /\ nTrades' = nTrades + 1
                    /\ net' = Tally(net, s, m_key, final_ticker, qty)
           ELSE /\ io = "ok"
                /\ last' = Click(s, m_key, t_sym, lp, "BUY", qty, "No Funds", "none")
                /\ UNCHANGED <<trading, trading_file, nTrades, net>>
        /\ UNCHANGED <<transactions, transactions_file>>

\* lines 434-457 for a SELL
ExecuteSell(s, m_key, t_sym, lp, qty, io) ==
    LET port == trading[s][m_key]
        final_ticker == FinalTicker(m_key, t_sym)
    IN  /\ nTrades < MaxTrades
        /\ HasTrading(s)
        /\ qty \in MinQty..MaxQty
        /\ IF HasShares(port, final_ticker, qty)
           THEN LET new == [trading EXCEPT
                              ![s] = StorePort(trading[s], m_key,
                                       SellPort(port, final_ticker, lp, qty))]
                IN  /\ trading' = new
                    /\ trading_file' = save_json(trading_file, new[s], io)
                    /\ last' = Click(s, m_key, t_sym, lp, "SELL", qty, "Sold!", io)
                    /\ nTrades' = nTrades + 1
                    /\ net' = Tally(net, s, m_key, final_ticker, -qty)
           ELSE /\ io = "ok"
                /\ last' = Click(s, m_key, t_sym, lp, "SELL", qty, "No Shares", "none")
                /\ UNCHANGED <<trading, trading_file, nTrades, net>>
        /\ UNCHANGED <<transactions, transactions_file>>

\* lines 426-428: the quote is missing (get_ticker_data_parallel returned
\* an empty list), so no EXECUTE button is drawn and nothing can be traded
NoQuote(s, m_key, t_sym) ==
    /\ HasTrading(s)
    /\ last' = [op |-> "noquote", s |-> s, m_key |-> m_key,
                final_ticker |-> FinalTicker(m_key, t_sym)]
    /\ UNCHANGED <<trading, transactions, trading_file, transactions_file,
                   nTrades, net>>

\* lines 77-79 in a fresh session of the same browser: the session state is
\* gone and is loaded from the files again (the tally of the session's orders
\* starts over from the quantities it loaded)
Reload(s) ==
    /\ trading' = [trading EXCEPT ![s] = load_json(trading_file, DefaultTrading)]
    /\ transactions' = [transactions EXCEPT
                          ![s] = load_json(transactions_file, DefaultTransactions)]
    /\ last' = [op |-> "reload", s |-> s]
    /\ net' = [net EXCEPT ![s] = HeldQty(trading'[s])]
    /\ UNCHANGED <<trading_file, transactions_file, nTrades>>

Init ==
    /\ trading_file = Absent
    /\ transactions_file = Absent
    /\ trading = [s \in {"s1"} |-> load_json(trading_file, DefaultTrading)]
    /\ transactions = [s \in {"s1"} |-> load_json(transactions_file, DefaultTransactions)]
    /\ last = [op |-> "start", s |-> "s1"]
    /\ nTrades = 0
    /\ net = [s \in {"s1"} |-> HeldQty(trading[s])]

Next ==
    \/ \E s \in DOMAIN trading, m_key \in Markets, t_sym \in TSyms,
          lp \in Prices, qty \in Qtys, io \in SaveOutcomes :
            ExecuteBuy(s, m_key, t_sym, lp, qty, io)
    \/ \E s \in DOMAIN trading, m_key \in Markets, t_sym \in TSyms,
          lp \in Prices, qty \in Qtys, io \in SaveOutcomes :
            ExecuteSell(s, m_key, t_sym, lp, qty, io)
    \/ \E s \in DOMAIN trading, m_key \in Markets, t_sym \in TSyms :
            NoQuote(s, m_key, t_sym)
    \/ \E s \in DOMAIN trading : Reload(s)

Spec == Init /\ [][Next]_vars

\* the browser sessions that may run the script against the same files
Sessions == {"s1", "s2"}

\* lines 77-79 in another browser session: it gets a session state of its
\* own, loaded once from the files the sessions share
StartSession(s) ==
    /\ s \notin DOMAIN trading
    /\ trading' = [x \in DOMAIN trading \cup {s} |->
                     IF x = s THEN load_json(trading_file, DefaultTrading)
                     ELSE trading[x]]
    /\ transactions' = [x \in DOMAIN transactions \cup {s} |->
                          IF x = s
                          THEN load_json(transactions_file, DefaultTransactions)
                          ELSE transactions[x]]
    /\ last' = [op |-> "start", s |-> s]
    /\ net' = [x \in DOMAIN net \cup {s} |->
                 IF x = s THEN HeldQty(trading'[s]) ELSE net[x]]
    /\ UNCHANGED <<trading_file, transactions_file, nTrades>>

\* what the sessions type and are quoted when several of them run: one
\* ticker, the positive prices
TSymsMulti == {"X"}

PricesMulti == {lp \in Prices : lp > 0}

\* several sessions on one ledger, every save running to its end and no
\* session loading the files again after its start
NextMulti ==
    \/ \E s \in Sessions : StartSession(s)
    \/ \E s \in DOMAIN trading, m_key \in Markets, t_sym \in TSymsMulti,
          lp \in PricesMulti, qty \in Qtys :
            ExecuteBuy(s, m_key, t_sym, lp, qty, "ok")
    \/ \E s \in DOMAIN trading, m_key \in Markets, t_sym \in TSymsMulti,
          lp \in PricesMulti, qty \in Qtys :
            ExecuteSell(s, m_key, t_sym, lp, qty, "ok")

SpecMulti == Init /\ [][NextMulti]_vars

(* ------------------------------ the claims ---------------------------- *)

\* the step is a click on EXECUTE that the page took to the handler
IsClick(c) == c.op = "execute"

IsAccepted(c) == IsClick(c) /\ c.result \in {"Bought!", "Sold!"}

IsDeclined(c) == IsClick(c) /\ c.result \in {"No Funds", "No Shares"}

\* gross = unit_price * quantity and fee = gross * 0.001, as the claims put it
Gross(c) == c.lp * c.qty

FeeOf(c) == Gross(c) \div 1000

TotalCost(c) == Gross(c) + FeeOf(c)

OtherMarket(m_key) == IF m_key = "india" THEN "global" ELSE "india"

\* the whole ledger, in memory and on disk, is what it was
LedgerUnchanged ==
    UNCHANGED <<trading, transactions, trading_file, transactions_file>>

\* C1: an accepted BUY takes exactly gross + fee from the segment's cash, an
\* accepted SELL adds exactly gross - fee, and a trade attempt moves no other
\* amount: a declined attempt, and the segment not traded in, keep their cash.
C1_MoneyConservation ==
    [][IsClick(last') =>
        LET c == last'
            before == trading[c.s][c.m_key].cash
            after == trading'[c.s][c.m_key].cash
            o == OtherMarket(c.m_key)
        IN  /\ Gross(c) % 1000 = 0
            /\ c.result = "Bought!" => after = before - (Gross(c) + FeeOf(c))
            /\ c.result = "Sold!" => after = before + (Gross(c) - FeeOf(c))
            /\ IsDeclined(c) => after = before
            /\ trading'[c.s][o].cash = trading[c.s][o].cash]_vars

\* C1 witness: a SELL was accepted at a positive price, fee charged
C1_Witness ==
    /\ IsClick(last)
    /\ last.result = "Sold!"
    /\ last.lp > 0
    /\ FeeOf(last) > 0

\* C2: a BUY whose total cost exceeds the segment's cash is declined and leaves
\* cash, holdings and the log (in memory and on disk) as they were; a BUY whose
\* total cost is within the cash is accepted.
C2_InsufficientFunds ==
    [][(IsClick(last') /\ last'.act = "BUY") =>
        LET c == last'
        IN  IF TotalCost(c) > trading[c.s][c.m_key].cash
            THEN c.result = "No Funds" /\ LedgerUnchanged
            ELSE c.result = "Bought!"]_vars

\* C2 witness: a BUY was declined for lack of funds
C2_Witness ==
    /\ IsClick(last)
    /\ last.result = "No Funds"
    /\ TotalCost(last) > trading[last.s][last.m_key].cash
    /\ trading[last.s][last.m_key].cash > 0

\* C3: a SELL of a symbol that is not held, or held in a smaller quantity than
\* asked, is declined and leaves cash, holdings and the log as they were.
C3_InsufficientShares ==
    [][(IsClick(last') /\ last'.act = "SELL") =>
        LET c == last'
            h == trading[c.s][c.m_key].holdings
        IN  (c.final_ticker \notin DOMAIN h \/ h[c.final_ticker].qty < c.qty)
                => (c.result = "No Shares" /\ LedgerUnchanged)]_vars

\* C3 witness: a SELL of more than the quantity held was declined
C3_Witness ==
    /\ IsClick(last)
    /\ last.result = "No Shares"
    /\ last.final_ticker \in DOMAIN trading[last.s][last.m_key].holdings
    /\ trading[last.s][last.m_key].holdings[last.final_ticker].qty < last.qty

\* C4: whenever a trade has changed the portfolio in memory, the persisted
\* ledger holds that same portfolio, also when the save step failed.
C4_TradeIsPersisted ==
    IsAccepted(last) => trading_file = JsonFile(trading[last.s])

\* the record the log is to receive for an accepted trade
TransactionOf(c) ==
    [type |-> c.act, symbol |-> c.final_ticker, qty |-> c.qty,
     price |-> c.lp, fee |-> FeeOf(c)]

\* C5: every accepted trade puts exactly one record of it at the head of the
\* transaction log and leaves the records already there as they were.
C5_TransactionLogged ==
    [][IsAccepted(last') =>
        transactions'[last'.s]
            = <<TransactionOf(last')>> \o transactions[last'.s]]_vars

\* the step is an accepted BUY of a symbol that was held / was not held
BuyOfHeld ==
    /\ IsClick(last')
    /\ last'.result = "Bought!"
    /\ last'.final_ticker \in DOMAIN trading[last'.s][last'.m_key].holdings

BuyOfNew ==
    /\ IsClick(last')
    /\ last'.result = "Bought!"
    /\ last'.final_ticker \notin DOMAIN trading[last'.s][last'.m_key].holdings

\* the position a click was about, before and after the step
OldPos == trading[last'.s][last'.m_key].holdings[last'.final_ticker]

NewPos == trading'[last'.s][last'.m_key].holdings[last'.final_ticker]

\* C6 as stated: on a BUY of a held symbol the new average price is
\* (old_quantity * old_avg_price + total_cost) / (old_quantity + quantity),
\* total_cost being gross + fee, and the new quantity old_quantity + quantity.
\* Stated for the trades the claim has in mind: a positive price, joining a
\* position whose average price is positive.
C6_AvgBlendsTotalCost ==
    [][(BuyOfHeld /\ last'.lp > 0 /\ OldPos.avg_price.num > 0) =>
        /\ NewPos.qty = OldPos.qty + last'.qty
        /\ NewPos.avg_price
             = Rat(OldPos.qty * OldPos.avg_price.num
                     + TotalCost(last') * OldPos.avg_price.den,
                   OldPos.avg_price.den * (OldPos.qty + last'.qty))]_vars

\* C6 amended: on a BUY of a held symbol the new average price is
\* (old_quantity * old_avg_price + gross) / (old_quantity + quantity), the fee
\* left out, and the new quantity is old_quantity + quantity.
C6_AvgBlendsGross ==
    [][BuyOfHeld =>
        /\ NewPos.qty = OldPos.qty + last'.qty
        /\ NewPos.avg_price
             = Rat(OldPos.qty * OldPos.avg_price.num
                     + Gross(last') * OldPos.avg_price.den,
                   OldPos.avg_price.den * (OldPos.qty + last'.qty))]_vars

\* C6 witness: a second BUY at a positive price joined a position bought at
\* another price, so the average is neither of the two prices
C6_Witness ==
    /\ IsClick(last)
    /\ last.result = "Bought!"
    /\ last.lp > 0
    /\ LET pos == trading[last.s][last.m_key].holdings[last.final_ticker]
       IN  /\ pos.qty > last.qty
           /\ pos.avg_price.num > 0
           /\ pos.avg_price # RatOfInt(last.lp)

\* C7 as stated: a BUY of a symbol not yet held creates a position with the
\* quantity bought and average_price = total_cost / quantity, fee included.
\* Stated for the trades the claim has in mind: a positive price.
C7_FirstAvgIsTotalCost ==
    [][(BuyOfNew /\ last'.lp > 0) =>
        /\ NewPos.qty = last'.qty
        /\ NewPos.avg_price = Rat(TotalCost(last'), last'.qty)]_vars

\* C7 amended: a BUY of a symbol not yet held creates a position with the
\* quantity bought and average_price = the unit price, fee left out; from cash
\* 1,000,000, BUY 10 @ 100 leaves cash 998,999.0 and {qty: 10, avg_price: 100}.
C7_FirstAvgIsUnitPrice ==
    [][BuyOfNew =>
        /\ NewPos.qty = last'.qty
        /\ DOMAIN trading'[last'.s][last'.m_key].holdings
             = DOMAIN trading[last'.s][last'.m_key].holdings
                 \cup {last'.final_ticker}
        /\ NewPos.avg_price = Rat(Gross(last'), last'.qty)
        /\ NewPos.avg_price = RatOfInt(last'.lp)]_vars

\* C7 witness: from the default India cash, BUY 10 @ 100 was accepted and left
\* cash 998,999.0 and the position {qty: 10, avg_price: 100}
C7_Witness ==
    /\ IsClick(last)
    /\ last.result = "Bought!"
    /\ last.m_key = "india"
    /\ last.final_ticker = "X.NS"
    /\ last.qty = 10
    /\ last.lp = 1000
    /\ trading[last.s].india.cash = 9989990
    /\ trading[last.s].india.holdings
         = [t \in {"X.NS"} |-> [qty |-> 10, avg_price |-> [num |-> 1000, den |-> 1]]]

\* C8: a trade whose price is missing or not positive is refused before any
\* state change, so that no position has an average price that is not positive.
C8_NonPositivePriceRefused ==
    [][/\ last'.op = "noquote" => LedgerUnchanged
       /\ (IsClick(last') /\ last'.lp <= 0) =>
             (~IsAccepted(last') /\ LedgerUnchanged)]_vars

\* C9: every segment's cash is >= 0 in every reachable state.
C9_CashNonNegative ==
    \A s \in DOMAIN trading : \A m \in Markets : trading[s][m].cash >= 0

\* every symbol in a segment's holdings has a quantity > 0
AllQtyPositive ==
    \A s \in DOMAIN trading : \A m \in Markets :
        \A t \in DOMAIN trading[s][m].holdings :
            trading[s][m].holdings[t].qty > 0

\* C10: every symbol present in holdings has quantity > 0, and a SELL of all
\* that is held removes the symbol's key in that same step.
C10_NoZeroPosition ==
    /\ []AllQtyPositive
    /\ [][(/\ IsClick(last')
           /\ last'.result = "Sold!"
           /\ OldPos.qty = last'.qty)
            => last'.final_ticker
                  \notin DOMAIN trading'[last'.s][last'.m_key].holdings]_vars

\* C10 witness: a SELL of the whole position was accepted and the key is gone
C10_Witness ==
    /\ IsClick(last)
    /\ last.result = "Sold!"
    /\ last.final_ticker \notin DOMAIN trading[last.s][last.m_key].holdings
    /\ AllQtyPositive

\* C11: an accepted SELL that leaves a positive quantity keeps the position's
\* average price, and the average price of a position that stays held changes
\* in no step other than an accepted BUY of that symbol in that segment.
C11_AvgMovesOnlyOnBuy ==
    [][/\ (IsClick(last') /\ last'.result = "Sold!" /\ OldPos.qty > last'.qty)
            => (/\ last'.final_ticker
                     \in DOMAIN trading'[last'.s][last'.m_key].holdings
                /\ NewPos.avg_price = OldPos.avg_price
                /\ NewPos.qty = OldPos.qty - last'.qty)
       /\ \A s \in DOMAIN trading : \A m \in Markets :
            \A t \in DOMAIN trading[s][m].holdings
                       \cap DOMAIN trading'[s][m].holdings :
                trading'[s][m].holdings[t].avg_price
                        # trading[s][m].holdings[t].avg_price
                    => (/\ IsClick(last')
                        /\ last'.result = "Bought!"
                        /\ last'.s = s
                        /\ last'.m_key = m
                        /\ last'.final_ticker = t)]_vars

\* C11 witness: a SELL at a price other than the average price was accepted
\* and left a part of the position, its average price positive
C11_Witness ==
    /\ IsClick(last)
    /\ last.result = "Sold!"
    /\ last.lp > 0
    /\ last.final_ticker \in DOMAIN trading[last.s][last.m_key].holdings
    /\ LET pos == trading[last.s][last.m_key].holdings[last.final_ticker]
       IN  /\ pos.qty > 0
           /\ pos.avg_price.num > 0
           /\ pos.avg_price # RatOfInt(last.lp)

\* C12: load returns the persisted document when the file exists and parses,
\* and the default when the file is absent or does not parse; in neither case
\* does an exception reach the caller.
C12_LoadNeverRaises ==
    [][last'.op = "reload" =>
        LET s == last'.s
        IN  /\ trading'[s] # Raised
            /\ transactions'[s] # Raised
            /\ IF trading_file.kind = "json"
               THEN json_dump(trading'[s]) = trading_file.text
               ELSE trading'[s] = DefaultTrading
            /\ transactions_file.kind # "json"
                 => transactions'[s] = DefaultTransactions]_vars

\* C12 witness: a session was loaded from a file that a failed write had left
\* unparseable, and holds the default ledger
C12_Witness ==
    /\ last.op = "reload"
    /\ nTrades > 0
    /\ trading_file = Corrupt
    /\ trading[last.s] = DefaultTrading

\* C13: a completed save followed by a load gives back the document that was
\* saved, whatever the file held before the save.
C13_SaveThenLoad ==
    [][/\ (IsAccepted(last') /\ last'.io = "ok")
            => (/\ trading_file'.kind = "json"
                /\ load_json(trading_file', DefaultTrading) = trading'[last'.s])
       /\ (/\ last'.op = "reload"
           /\ IsAccepted(last)
           /\ last.io = "ok"
           /\ last.s = last'.s)
            => trading'[last'.s] = trading[last'.s]]_vars

\* C13 witness: the second of two saves has replaced what the first left in
\* the file, and a load gave back the ledger of the second, not the default
C13_Witness ==
    /\ last.op = "reload"
    /\ nTrades >= 2
    /\ trading_file.kind = "json"
    /\ trading_file = JsonFile(trading[last.s])
    /\ trading[last.s] # DefaultTrading
    /\ \E m \in Markets : DOMAIN trading[last.s][m].holdings # {}

\* C14: a trade attempt in one segment, accepted or declined, leaves the cash
\* and the holdings of the other segment as they were.
C14_SegmentsIndependent ==
    [][IsClick(last') =>
        LET s == last'.s
            o == OtherMarket(last'.m_key)
        IN  /\ trading'[s][o].cash = trading[s][o].cash
            /\ trading'[s][o].holdings = trading[s][o].holdings]_vars

\* C14 witness: a trade was accepted in one segment while the other segment,
\* traded in before, holds a position and a cash balance of its own
C14_Witness ==
    /\ IsAccepted(last)
    /\ LET tr == trading[last.s]
           o == OtherMarket(last.m_key)
       IN  /\ DOMAIN tr[o].holdings # {}
           /\ tr[o].cash # DefaultTrading[o].cash
           /\ tr[last.m_key].cash # DefaultTrading[last.m_key].cash

\* C15: with two sessions on one persisted ledger, a session's state is set
\* when it starts and changed by its own trades only, and every save puts the
\* saving session's whole snapshot in the file; so the later of two saves
\* leaves a file without the other session's committed trade (the witness).
C15_LastSnapshotWins ==
    [][/\ (IsAccepted(last') /\ last'.io = "ok")
            => trading_file' = JsonFile(trading'[last'.s])
       /\ \A s \in DOMAIN trading :
            trading'[s] # trading[s]
                => (IsAccepted(last') /\ last'.s = s)]_vars

\* C15 witness: the first session bought X.NS in India at a positive price,
\* was told "Bought!" and saved; the second session, whose India segment is
\* still the default one, then traded in Global and saved: the file is the
\* second session's snapshot and does not hold the first session's trade
C15_Witness ==
    /\ DOMAIN trading = Sessions
    /\ IsAccepted(last)
    /\ last.s = "s2"
    /\ last.m_key = "global"
    /\ last.io = "ok"
    /\ "X.NS" \in DOMAIN trading["s1"].india.holdings
    /\ trading["s1"].india.holdings["X.NS"].avg_price.num > 0
    /\ trading["s1"].india.cash < DefaultCashIndia
    /\ trading["s2"].india = DefaultTrading.india
    /\ trading_file = JsonFile(trading["s2"])
    /\ "X.NS" \notin DOMAIN load_json(trading_file, DefaultTrading).india.holdings
    /\ load_json(trading_file, DefaultTrading).india.cash = DefaultCashIndia

\* C16: for every segment and symbol the quantity held is the total quantity
\* of the accepted BUYs minus that of the accepted SELLs of the symbol in the
\* segment, counted from the holdings the session started with (none by
\* default), and the symbol is absent from holdings exactly when that is 0.
C16_ShareConservation ==
    \A s \in DOMAIN trading : \A m \in Markets : \A t \in AllTickers :
        LET h == trading[s][m].holdings
        IN  /\ t \in DOMAIN h => h[t].qty = net[s][m][t]
            /\ t \notin DOMAIN h <=> net[s][m][t] = 0
            /\ DOMAIN h \subseteq AllTickers

\* C16 witness: after a BUY of 10 and a SELL of 1 of the same symbol, both
\* accepted, 9 are held
C16_Witness ==
    /\ IsClick(last)
    /\ last.result = "Sold!"
    /\ last.qty = 1
    /\ nTrades = 2
    /\ net[last.s][last.m_key][last.final_ticker] = 9
    /\ last.final_ticker \in DOMAIN trading[last.s][last.m_key].holdings
    /\ trading[last.s][last.m_key].holdings[last.final_ticker].qty = 9

====
